---- MODULE Spec2Model ----
(***************************************************************************)
(* The Kernel of packages/taro-service: preset/plugin resolution, the      *)
(* plugin context, the hook registry and the applyPlugins runner, and the  *)
(* init()/run() pipeline that drives them.                                 *)
(***************************************************************************)
EXTENDS Integers, Sequences, FiniteSets, TLC

\* ------------------------------------------------------------------ bounds
MaxTop == 2      \* longest caller-supplied presets / plugins list
MaxRuns == 2     \* entries into init()/run() on one kernel instance
MaxHooks == 3    \* registrations on the chain of the hook-runner specification

\* ------------------------------------------------------------------ values
\* A JavaScript value as far as the kernel looks at it: undefined, the loaded
\* configuration object, the seeded paths object, a seed handed to a direct
\* applyPlugins call, or an array of handler results.
Undefined == [kind |-> "undefined", items |-> <<>>]
ConfigVal == [kind |-> "config", items |-> <<>>]
PathsVal == [kind |-> "paths", items |-> <<>>]
SeedVal == [kind |-> "seed", items |-> <<>>]
ArrayVal(s) == [kind |-> "array", items |-> s]

\* The options bag of run(): undefined, or an object whose platform may be
\* unset ("") and whose config is attached by run().
NoOpts == [defined |-> FALSE, platform |-> "", config |-> ""]
OptsOf(p) == [defined |-> TRUE, platform |-> p, config |-> ""]

\* ------------------------------------------------------------ declarations
\* Specifiers that can be declared, and the id (resolved module path) each
\* one resolves to. "Pa" and "Aa" are second specifiers of the modules P, A.
Specs == {"P", "Q", "S", "P2", "D", "Pa", "A", "B", "C", "R", "T", "Aa", "X"}
ResolveId(s) == CASE s = "Pa" -> "P" [] s = "Aa" -> "A" [] OTHER -> s
Ids == {ResolveId(s) : s \in Specs}

TopPresets == {"P", "P2", "D", "Pa"}
TopPlugins == {"A", "B", "Aa", "P"}
ConfigFiles == {[presets |-> <<>>, plugins |-> <<>>],
                [presets |-> <<"P2">>, plugins |-> <<"C", "B">>]}

HookNames == {"modifyConfig", "modifyPaths", "onReady", "onStart",
              "build", "h5", "h"}
RunNames == {"build", "nope", "onStart"}
PlatformNames == {"h5", "weapp"}

RECURSIVE SeqsUpTo(_, _)
\* the sequences over S of length <= n without repeated elements
SeqsUpTo(S, n) ==
  IF n = 0 THEN {<<>>}
  ELSE LET shorter == SeqsUpTo(S, n - 1) IN
       shorter \cup {Append(q, x) : q \in shorter, x \in S}

NoRepeat(q) == \A i, j \in 1..Len(q) : i # j => q[i] # q[j]
Range(q) == {q[i] : i \in 1..Len(q)}

\* --------------------------------------------------- preset/plugin modules
\* What a module's setup function does with its context and what it returns.
\* A hook registration is {name, fn, stage?, before?}; ret is what fn returns.
Reg(name, fn, hasStage, stage, before) ==
  [name |-> name, fn |-> fn, hasStage |-> hasStage, stage |-> stage,
   before |-> before, ret |-> fn]
Tap(name, fn) == Reg(name, fn, FALSE, 0, {})

NoSetup == [hooks |-> <<>>, commands |-> <<>>, platforms |-> <<>>, methods |-> <<>>,
            hasPresets |-> FALSE, presets |-> <<>>,
            hasPlugins |-> FALSE, plugins |-> <<>>]

ModuleSetup(id) ==
  CASE id = "P" -> [NoSetup EXCEPT !.hooks = <<Tap("onReady", "P.onReady")>>,
                                   !.methods = <<"onBuild">>,
                                   !.hasPresets = TRUE, !.presets = <<"Q">>,
                                   !.hasPlugins = TRUE, !.plugins = <<"R">>]
    [] id = "Q" -> [NoSetup EXCEPT !.hooks = <<Tap("onStart", "Q.onStart")>>,
                                   !.hasPresets = TRUE, !.presets = <<"S">>,
                                   !.hasPlugins = TRUE, !.plugins = <<"T">>]
    [] id = "S" -> [NoSetup EXCEPT !.hooks = <<Reg("onReady", "S.onReady", TRUE, 1, {})>>]
    [] id = "P2" -> [NoSetup EXCEPT !.hooks = <<Tap("modifyPaths", "P2.modifyPaths")>>,
                                    !.hasPlugins = TRUE, !.plugins = <<"A">>]
    [] id = "D" -> [NoSetup EXCEPT !.hooks = <<Tap("modifyConfig", "D.modifyConfig")>>,
                                   !.hasPresets = TRUE, !.presets = <<"Q">>]
    [] id = "A" -> [NoSetup EXCEPT !.hooks = <<Tap("onStart", "A.onStart")>>,
                                   !.commands = <<Tap("build", "A.build")>>,
                                   !.platforms = <<Tap("h5", "A.h5")>>]
    [] id = "B" -> [NoSetup EXCEPT !.hooks = <<Reg("build", "B.build", TRUE, 1, {}),
                                               Tap("onReady", "B.onReady")>>,
                                   !.hasPlugins = TRUE, !.plugins = <<"X">>]
    [] id = "C" -> [NoSetup EXCEPT !.hooks = <<Reg("build", "C.build", TRUE, -1, {}),
                                               Tap("modifyPaths", "C.modifyPaths")>>]
    [] id = "R" -> [NoSetup EXCEPT !.hooks = <<Reg("build", "R.build", FALSE, 0, {"A"}),
                                               Tap("onStart", "R.onStart")>>]
    [] id = "T" -> [NoSetup EXCEPT !.hooks = <<Tap("onReady", "T.onReady")>>]
    [] OTHER -> [NoSetup EXCEPT !.hooks = <<Tap("build", "X.build")>>]

\* ---------------------------------------------------------------- state
VARIABLES
  optsPresets, optsPlugins,   \* this.optsPresets, this.optsPlugins
  configFile,                 \* this.config.initialConfig as loaded from disk
  plugins,                    \* this.plugins: the ids registered
  extraPlugins,               \* this.extraPlugins
  hooks,                      \* this.hooks: name -> registered entries
  methods,                    \* this.methods: the names grafted
  commands, platforms,        \* this.commands, this.platforms: the names
  initialConfig, paths,       \* this.initialConfig, this.paths
  pc,                         \* where the pending init()/run() stands
  entry,                      \* the call in progress: init or run(name, opts)
  stack,                      \* the preset loops in progress (resolvePresets, initPreset)
  queue,                      \* _plugins of resolvePlugins
  ap,                         \* the applyPlugins call in progress
  outcome,                    \* how the last call ended
  runs,                       \* entries into init()/run() so far
  events,                     \* what this call has executed so far, in order
  afterFirst                  \* this.plugins and this.hooks as the first init() left them

kernelVars == <<plugins, extraPlugins, hooks, methods, commands, platforms,
                initialConfig, paths>>
vars == <<optsPresets, optsPlugins, configFile, plugins, extraPlugins, hooks,
          methods, commands, platforms, initialConfig, paths, pc, entry, stack,
          queue, ap, outcome, runs, events, afterFirst>>

\* ------------------------------------------------------------- history
\* One entry of events: kind is "phase" (name: the phase begun), "setup" (id's
\* setup function ran, name: "preset", "extra" for a plugin a preset declared
\* or "plugin" for one of the caller's or the configuration's), "registered" / "conflict"
\* (registerPlugin accepted / rejected id), "invoke" (handler id of chain name
\* was called with arg and opts), "resolve" / "reject" (its outcome). ctx holds,
\* for a "setup" or a "conflict", the grafted methods the context was built with.
Event(kind, id, name, arg, opts) ==
  [kind |-> kind, id |-> id, name |-> name, arg |-> arg, opts |-> opts, at |-> pc,
   ctx |-> {}]

Select(q, kind) == SelectSeq(q, LAMBDA e : e.kind = kind)

\* ------------------------------------------------------ Plugin (context)
\* Plugin.register(hook): the entry, owned by the context's id, is appended
\* to the chain of its name.
Register(hs, id, reg) ==
  [hs EXCEPT ![reg.name] = Append(@, [name |-> reg.name, fn |-> reg.fn,
      hasStage |-> reg.hasStage, stage |-> reg.stage, before |-> reg.before,
      ret |-> reg.ret, plugin |-> id])]

\* --------------------------------------------------------- applyPlugins
\* Faulty variant: the stage asked for is not passed to the tap
StageOfDropped(hook) == 0

\* stage: hook.stage || 0
StageOf(hook) == IF hook.hasStage /\ hook.stage # 0 THEN hook.stage ELSE 0

\* Faulty variant: hook.before is not passed to the tap
TapOfNoBefore(hook) ==
  [name |-> hook.plugin, stage |-> StageOf(hook), before |-> {},
   fn |-> hook.fn, ret |-> hook.ret]

TapOf(hook) ==
  [name |-> hook.plugin, stage |-> StageOf(hook), before |-> hook.before,
   fn |-> hook.fn, ret |-> hook.ret]

RECURSIVE InsertAt(_, _, _)
\* Where waterfall.tapPromise puts a tap: it walks the taps from the last one
\* down, past every tap named in `before` and those behind them, then past
\* the taps of a higher stage; the result is the number of taps left ahead.
InsertAt(taps, stage, before) ==
  IF taps = <<>> THEN 0
  ELSE LET x == taps[Len(taps)]
           rest == SubSeq(taps, 1, Len(taps) - 1)
       IN  IF x.name \in before THEN InsertAt(rest, stage, before \ {x.name})
           ELSE IF before # {} THEN InsertAt(rest, stage, before)
           ELSE IF x.stage > stage THEN InsertAt(rest, stage, before)
           ELSE Len(taps)

Insert(taps, item) ==
  LET i == InsertAt(taps, item.stage, item.before)
  IN  SubSeq(taps, 1, i) \o <<item>> \o SubSeq(taps, i + 1, Len(taps))

RECURSIVE TapAll(_, _)
\* for (const hook of hooks) waterfall.tapPromise(...)
TapAll(taps, hs) ==
  IF hs = <<>> THEN taps ELSE TapAll(Insert(taps, TapOf(Head(hs))), Tail(hs))

NoCall ==
  [status |-> "none", name |-> "", taps |-> <<>>, i |-> 1, busy |-> FALSE,
   initialVal |-> Undefined, arg |-> Undefined, resArr |-> <<>>, opts |-> NoOpts]

\* Faulty variant: the seed is dropped: the waterfall starts from undefined
ApplyCallNoSeed(name, initialVal, opts) ==
  [status |-> "running", name |-> name, taps |-> TapAll(<<>>, hooks[name]),
   i |-> 1, busy |-> FALSE, initialVal |-> initialVal, arg |-> Undefined,
   resArr |-> <<>>, opts |-> opts]

\* applyPlugins({name, initialVal, opts}) up to waterfall.promise(initialVal)
ApplyCall(name, initialVal, opts) ==
  [status |-> "running", name |-> name, taps |-> TapAll(<<>>, hooks[name]),
   i |-> 1, busy |-> FALSE, initialVal |-> initialVal, arg |-> initialVal,
   resArr |-> <<>>, opts |-> opts]

callVars == <<optsPresets, optsPlugins, configFile, afterFirst, pc, entry, stack, queue,
              outcome, runs>>

\* Faulty variant: the next tap is called while the last one is pending
HandlerInvokeEager ==
  /\ ap.status = "running"
  /\ LET next == IF ap.busy THEN ap.i + 1 ELSE ap.i
     IN  /\ next <= Len(ap.taps)
         /\ ap' = [ap EXCEPT !.busy = TRUE, !.i = next]
         /\ events' = Append(events,
                         Event("invoke", ap.taps[next].fn, ap.name, ap.arg, ap.opts))
  /\ UNCHANGED <<kernelVars, callVars>>

\* the waterfall calls the next tap: hook.fn(arg, opts)
HandlerInvoke ==
  /\ ap.status = "running" /\ ~ap.busy /\ ap.i <= Len(ap.taps)
  /\ ap' = [ap EXCEPT !.busy = TRUE]
  /\ events' = Append(events, Event("invoke", ap.taps[ap.i].fn, ap.name, ap.arg, ap.opts))
  /\ UNCHANGED <<kernelVars, callVars>>

\* Faulty variant: the tap keeps only the last result
AccumulateLast(resArr, res) == <<res>>

\* resArr after resArr.push(res), the value the tap hands to the next one
Accumulate(resArr, res) == Append(resArr, res)

\* Faulty variant: the tap returns res, as a plain waterfall would
HandlerResolveReturnsRes ==
  /\ ap.status = "running" /\ ap.busy
  /\ LET acc == Accumulate(ap.resArr, ap.taps[ap.i].ret)
     IN  ap' = [ap EXCEPT !.busy = FALSE, !.i = @ + 1, !.resArr = acc,
                          !.arg = [kind |-> "result", items |-> <<ap.taps[ap.i].ret>>]]
  /\ events' = Append(events, Event("resolve", ap.taps[ap.i].fn, ap.name, ap.arg, ap.opts))
  /\ UNCHANGED <<kernelVars, callVars>>

\* hook.fn's promise resolves: resArr.push(res); return resArr
HandlerResolve ==
  /\ ap.status = "running" /\ ap.busy
  /\ LET acc == Accumulate(ap.resArr, ap.taps[ap.i].ret)
     IN  ap' = [ap EXCEPT !.busy = FALSE, !.i = @ + 1, !.resArr = acc,
                          !.arg = ArrayVal(acc)]
  /\ events' = Append(events, Event("resolve", ap.taps[ap.i].fn, ap.name, ap.arg, ap.opts))
  /\ UNCHANGED <<kernelVars, callVars>>

\* Faulty variant: the runner swallows the failure and goes on with the next tap
HandlerRejectSwallowed ==
  /\ ap.status = "running" /\ ap.busy
  /\ ap' = [ap EXCEPT !.busy = FALSE, !.i = @ + 1]
  /\ events' = Append(events, Event("reject", ap.taps[ap.i].fn, ap.name, ap.arg, ap.opts))
  /\ UNCHANGED <<kernelVars, callVars>>

\* hook.fn throws or its promise rejects: the waterfall's promise rejects
HandlerReject ==
  /\ ap.status = "running" /\ ap.busy
  /\ ap' = [ap EXCEPT !.busy = FALSE, !.status = "rejected"]
  /\ events' = Append(events, Event("reject", ap.taps[ap.i].fn, ap.name, ap.arg, ap.opts))
  /\ UNCHANGED <<kernelVars, callVars>>

\* return await waterfall.promise(initialVal), every tap done
ApplyResolve ==
  /\ ap.status = "running" /\ ~ap.busy /\ ap.i > Len(ap.taps)
  /\ ap' = [ap EXCEPT !.status = "resolved"]
  /\ UNCHANGED <<kernelVars, callVars, events>>

Runner == HandlerInvoke \/ HandlerResolve \/ HandlerReject \/ ApplyResolve

\* ------------------------------------------- the hook runner on its own
\* A caller that registers entries on the chain "h" through plugin contexts
\* and then calls applyPlugins on it directly.
NoEntry == [kind |-> "none", name |-> "", initialVal |-> Undefined, opts |-> NoOpts]
NoOutcome == [status |-> "none", error |-> "", value |-> Undefined]

\* before any init() has resolved
NoSnapshot == [taken |-> FALSE, plugins |-> {}, hooks |-> [n \in HookNames |-> <<>>]]

FnNames == <<"h1", "h2", "h3", "h4", "h5", "h6">>
Owners == {"A", "B"}
StageChoices == {[has |-> FALSE, stage |-> 0], [has |-> TRUE, stage |-> 0],
                 [has |-> TRUE, stage |-> 1], [has |-> TRUE, stage |-> -1]}
BeforeChoices == {{}, {"A"}}

InitHooks ==
  /\ optsPresets = <<>> /\ optsPlugins = <<>>
  /\ configFile = [presets |-> <<>>, plugins |-> <<>>]
  /\ plugins = {} /\ extraPlugins = <<>>
  /\ hooks = [n \in HookNames |-> <<>>]
  /\ methods = {} /\ commands = {} /\ platforms = {}
  /\ initialConfig = Undefined /\ paths = Undefined
  /\ pc = "idle" /\ entry = NoEntry /\ stack = <<>> /\ queue = <<>>
  /\ ap = NoCall /\ outcome = NoOutcome /\ runs = 0 /\ events = <<>>
  /\ afterFirst = NoSnapshot

\* ctx.register({name: 'h', fn, stage, before}) from the context of plugin id
AddHook ==
  /\ pc = "idle" /\ runs = 0 /\ Len(hooks["h"]) < MaxHooks
  /\ \E id \in Owners, st \in StageChoices, before \in BeforeChoices :
       hooks' = Register(hooks, id,
                  Reg("h", FnNames[Len(hooks["h"]) + 1], st.has, st.stage, before))
  /\ UNCHANGED <<plugins, extraPlugins, methods, commands, platforms,
                 initialConfig, paths, callVars, ap, events>>

ApplyInputs == {<<Undefined, NoOpts>>, <<SeedVal, OptsOf("h5")>>}

\* applyPlugins({name: 'h', initialVal, opts}); applyPlugins('h')
Apply ==
  /\ pc = "idle" /\ runs = 0
  /\ \E in \in ApplyInputs :
       /\ ap' = ApplyCall("h", in[1], in[2])
       /\ entry' = [kind |-> "apply", name |-> "h", initialVal |-> in[1],
                    opts |-> in[2]]
  /\ pc' = "apply" /\ runs' = runs + 1
  /\ events' = <<>> /\ outcome' = NoOutcome
  /\ UNCHANGED <<kernelVars, optsPresets, optsPlugins, configFile, afterFirst,
                 stack, queue>>

\* applyPlugins(args) where args.name is no string: the call throws at once
ApplyInvalid ==
  /\ pc = "idle" /\ runs = 0
  /\ entry' = [kind |-> "apply", name |-> "", initialVal |-> Undefined,
               opts |-> NoOpts]
  /\ outcome' = [status |-> "rejected", error |-> "name", value |-> Undefined]
  /\ runs' = runs + 1 /\ events' = <<>>
  /\ UNCHANGED <<kernelVars, optsPresets, optsPlugins, configFile, afterFirst,
                 pc, stack, queue, ap>>

\* the caller's await of applyPlugins ends
ApplyReturn ==
  /\ pc = "apply" /\ ap.status \in {"resolved", "rejected"}
  /\ outcome' = [status |-> ap.status,
                 error |-> IF ap.status = "rejected" THEN "handler" ELSE "",
                 value |-> IF ap.status = "resolved" THEN ap.arg ELSE Undefined]
  /\ pc' = "idle" /\ ap' = NoCall
  /\ UNCHANGED <<kernelVars, optsPresets, optsPlugins, configFile, afterFirst,
                 entry, stack,
                 queue, runs, events>>

NextHooks == AddHook \/ Apply \/ ApplyInvalid \/ Runner \/ ApplyReturn

SpecHooks == InitHooks /\ [][NextHooks]_vars

\* ------------------------------------------------------------ the kernel
RECURSIVE Keys(_)
\* The keys of the object a declaration list is converted to: a specifier
\* declared again keeps its first place.
Keys(q) ==
  IF q = <<>> THEN <<>>
  ELSE LET front == Keys(SubSeq(q, 1, Len(q) - 1))
           last == q[Len(q)]
       IN  IF last \in Range(front) THEN front ELSE Append(front, last)

\* mergePlugins(dist, src)(type): the caller's declarations, then the
\* configuration's that the caller did not declare.
MergePlugins(dist, src) == Keys(dist \o src)

\* initialConfig.presets || [], initialConfig.plugins || []
ConfigPresets == IF initialConfig.kind = "config" THEN configFile.presets ELSE <<>>
ConfigPlugins == IF initialConfig.kind = "config" THEN configFile.plugins ELSE <<>>

RECURSIVE RegisterAll(_, _, _)
RegisterAll(hs, id, regs) ==
  IF regs = <<>> THEN hs ELSE RegisterAll(Register(hs, id, Head(regs)), id, Tail(regs))

\* What apply()(pluginCtx, opts) leaves in the registries: the hooks it adds,
\* registerCommand / registerPlatform (the name, and its handler as a hook of
\* that name) and registerMethod.
HooksAfterSetup(id) ==
  LET m == ModuleSetup(id)
  IN  RegisterAll(hooks, id, m.hooks \o m.commands \o m.platforms)
CommandsAfterSetup(id) == commands \cup {r.name : r \in Range(ModuleSetup(id).commands)}
PlatformsAfterSetup(id) == platforms \cup {r.name : r \in Range(ModuleSetup(id).platforms)}

\* initPluginCtx: onReady and onStart are grafted if no one did before
MethodsAfterCtx == methods \cup {"onReady", "onStart"}
MethodsAfterSetup(id) == MethodsAfterCtx \cup Range(ModuleSetup(id).methods)

\* Faulty variant: the context gets the internal methods only
CtxMethodsInternalOnly == {"onReady", "onStart"}

\* initPluginCtx: this.methods.forEach((val, name) => { pluginCtx[name] = val })
CtxMethods == MethodsAfterCtx

\* id's context is built, and then (kind) its setup function runs or
\* registerPlugin rejects it
CtxEvent(kind, id, name) ==
  [Event(kind, id, name, Undefined, NoOpts) EXCEPT !.ctx = CtxMethods]

\* what init() leaves when it resolves, kept from the first call on
Snapshot ==
  IF runs = 1 THEN [taken |-> TRUE, plugins |-> plugins, hooks |-> hooks]
  ELSE afterFirst

Calls ==
  {[kind |-> "init", name |-> "", initialVal |-> Undefined, opts |-> NoOpts]} \cup
  {[kind |-> "run", name |-> n, initialVal |-> Undefined, opts |-> o] :
     n \in RunNames,
     o \in {NoOpts} \cup {OptsOf(p) : p \in PlatformNames \cup {""}}}

\* the declaration lists a caller can pass: up to MaxTop specifiers of S
Declared(S) == {q \in SeqsUpTo(S, MaxTop) : NoRepeat(q)}

Init ==
  /\ optsPresets \in Declared(TopPresets)
  /\ optsPlugins \in Declared(TopPlugins)
  /\ configFile \in ConfigFiles
  /\ plugins = {} /\ extraPlugins = <<>>
  /\ hooks = [n \in HookNames |-> <<>>]
  /\ methods = {} /\ commands = {} /\ platforms = {}
  /\ initialConfig = Undefined /\ paths = Undefined
  /\ pc = "idle" /\ entry = NoEntry /\ stack = <<>> /\ queue = <<>>
  /\ ap = NoCall /\ outcome = NoOutcome /\ runs = 0 /\ events = <<>>
  /\ afterFirst = NoSnapshot

inputVars == <<optsPresets, optsPlugins, configFile>>
\* what no step of the resolution or of run's own code changes
fixedVars == <<inputVars, afterFirst>>
Rejected(why) == [status |-> "rejected", error |-> why, value |-> Undefined]
Phase(name) == Event("phase", "", name, Undefined, NoOpts)

\* run(args) / init() up to the await in initConfig
Run ==
  /\ pc = "idle" /\ runs < MaxRuns
  /\ \E call \in Calls : entry' = call
  /\ runs' = runs + 1 /\ outcome' = NoOutcome
  /\ pc' = "initConfig"
  /\ ap' = ApplyCall("modifyConfig", ConfigVal, NoOpts)
  /\ events' = <<Phase("modifyConfig")>>
  /\ UNCHANGED <<kernelVars, fixedVars, stack, queue>>

\* an awaited applyPlugins rejected: init() and run() reject with its error
Rethrow ==
  /\ pc \in {"initConfig", "initPaths", "onReady", "onStart", "command"}
  /\ ap.status = "rejected"
  /\ pc' = "idle" /\ ap' = NoCall /\ outcome' = Rejected("handler")
  /\ UNCHANGED <<kernelVars, fixedVars, entry, stack, queue, runs, events>>

\* initConfig stores the chain's value; initPaths up to its await
InitPaths ==
  /\ pc = "initConfig" /\ ap.status = "resolved" /\ ap.arg.kind = "config"
  /\ initialConfig' = ap.arg
  /\ pc' = "initPaths"
  /\ ap' = ApplyCall("modifyPaths", PathsVal, NoOpts)
  /\ events' = Append(events, Phase("modifyPaths"))
  /\ UNCHANGED <<plugins, extraPlugins, hooks, methods, commands, platforms, paths,
                 fixedVars, entry, stack, queue, outcome, runs>>

\* initialConfig is the array of results: path.join(appPath, undefined) throws
InitPathsThrows ==
  /\ pc = "initConfig" /\ ap.status = "resolved" /\ ap.arg.kind # "config"
  /\ initialConfig' = ap.arg
  /\ pc' = "idle" /\ ap' = NoCall /\ outcome' = Rejected("paths")
  /\ UNCHANGED <<plugins, extraPlugins, hooks, methods, commands, platforms, paths,
                 fixedVars, entry, stack, queue, runs, events>>

Frame(q, hasPlugins, ps) == [queue |-> q, hasPlugins |-> hasPlugins, plugins |-> ps]
Top == stack[Len(stack)]
Pop == SubSeq(stack, 1, Len(stack) - 1)

\* Faulty variant: the value of the modifyPaths chain is not stored
InitPresetsAndPluginsKeepsPaths ==
  /\ pc = "initPaths" /\ ap.status = "resolved"
  /\ plugins' = {} /\ extraPlugins' = <<>>
  /\ stack' = <<Frame(MergePlugins(optsPresets, ConfigPresets), FALSE, <<>>)>>
  /\ pc' = "resolvePresets" /\ ap' = NoCall
  /\ events' = Append(events, Phase("resolve"))
  /\ UNCHANGED <<hooks, methods, commands, platforms, initialConfig, paths,
                 fixedVars, entry, queue, outcome, runs>>

\* initPaths stores the chain's value; initPresetsAndPlugins up to the loop
\* of resolvePresets
InitPresetsAndPlugins ==
  /\ pc = "initPaths" /\ ap.status = "resolved"
  /\ paths' = ap.arg
  /\ plugins' = {} /\ extraPlugins' = <<>>
  /\ stack' = <<Frame(MergePlugins(optsPresets, ConfigPresets), FALSE, <<>>)>>
  /\ pc' = "resolvePresets" /\ ap' = NoCall
  /\ events' = Append(events, Phase("resolve"))
  /\ UNCHANGED <<hooks, methods, commands, platforms, initialConfig, fixedVars,
                 entry, queue, outcome, runs>>

\* Faulty variant: the presets a preset declares join the end of the loop that
\* called it instead of being gone through at once
DescendBreadthFirst(st, m) ==
  Append([st EXCEPT ![Len(st)].queue =
            Tail(@) \o (IF m.hasPresets THEN Keys(m.presets) ELSE <<>>)],
         Frame(<<>>, m.hasPlugins, Keys(m.plugins)))

\* The loops in progress once a preset is registered: its own loop, over the
\* presets it declares, on top of the loop it was taken from.
Descend(st, m) ==
  Append([st EXCEPT ![Len(st)].queue = Tail(@)],
         Frame(IF m.hasPresets THEN Keys(m.presets) ELSE <<>>,
               m.hasPlugins, Keys(m.plugins)))

\* initPreset of the next preset of the innermost loop: its context, its
\* setup function, registerPlugin, and the loop over the presets it declares
InitPreset ==
  /\ pc = "resolvePresets" /\ stack # <<>> /\ Top.queue # <<>>
  /\ LET id == ResolveId(Head(Top.queue))
         m == ModuleSetup(id)
     IN  /\ id \notin plugins
         /\ plugins' = plugins \cup {id}
         /\ hooks' = HooksAfterSetup(id)
         /\ commands' = CommandsAfterSetup(id)
         /\ platforms' = PlatformsAfterSetup(id)
         /\ methods' = MethodsAfterSetup(id)
         /\ events' = events \o
              <<CtxEvent("setup", id, "preset"),
                Event("registered", id, "preset", Undefined, NoOpts)>>
         /\ stack' = Descend(stack, m)
  /\ UNCHANGED <<extraPlugins, initialConfig, paths, fixedVars, pc, entry, queue,
                 ap, outcome, runs>>

\* initPreset of a preset whose id is registered already: its setup function
\* has run when registerPlugin throws, and init() rejects
InitPresetConflict ==
  /\ pc = "resolvePresets" /\ stack # <<>> /\ Top.queue # <<>>
  /\ LET id == ResolveId(Head(Top.queue))
     IN  /\ id \in plugins
         /\ hooks' = HooksAfterSetup(id)
         /\ commands' = CommandsAfterSetup(id)
         /\ platforms' = PlatformsAfterSetup(id)
         /\ methods' = MethodsAfterSetup(id)
         /\ events' = events \o
              <<CtxEvent("setup", id, "preset"),
                CtxEvent("conflict", id, "preset")>>
  /\ pc' = "idle" /\ stack' = <<>> /\ outcome' = Rejected("conflict")
  /\ UNCHANGED <<plugins, extraPlugins, initialConfig, paths, fixedVars, entry,
                 queue, ap, runs>>

\* the loop of an initPreset is over: the plugins its preset declared are
\* pushed on extraPlugins, and it returns to the loop that called it
InitPresetReturn ==
  /\ pc = "resolvePresets" /\ Len(stack) > 1 /\ Top.queue = <<>>
  /\ extraPlugins' = IF Top.hasPlugins THEN extraPlugins \o Top.plugins
                     ELSE extraPlugins
  /\ stack' = Pop
  /\ UNCHANGED <<plugins, hooks, methods, commands, platforms, initialConfig, paths,
                 fixedVars, pc, entry, queue, ap, outcome, runs, events>>

\* Each plugin of the loop with where it was declared: "extra" by a preset,
\* "plugin" by the caller or the configuration.
From(q, origin) == [k \in 1..Len(q) |-> [spec |-> q[k], origin |-> origin]]

\* Faulty variant: the plugins the presets declared come last
PluginQueueExtraLast(extra, allPlugins) ==
  From(allPlugins, "plugin") \o From(extra, "extra")

\* The plugins resolvePlugins goes through: [...this.extraPlugins, ...allPlugins]
PluginQueue(extra, allPlugins) == From(extra, "extra") \o From(allPlugins, "plugin")

\* the loop of resolvePresets is over; resolvePlugins up to its loop
ResolvePlugins ==
  /\ pc = "resolvePresets" /\ Len(stack) = 1 /\ Top.queue = <<>>
  /\ queue' = PluginQueue(extraPlugins, MergePlugins(optsPlugins, ConfigPlugins))
  /\ stack' = <<>> /\ pc' = "resolvePlugins"
  /\ UNCHANGED <<kernelVars, fixedVars, entry, ap, outcome, runs, events>>

\* Faulty variant: the plugins a plugin's setup function returns join the loop
InitPluginExpands ==
  /\ pc = "resolvePlugins" /\ queue # <<>>
  /\ LET id == ResolveId(Head(queue).spec)
         origin == Head(queue).origin
         m == ModuleSetup(id)
     IN  /\ id \notin plugins
         /\ plugins' = plugins \cup {id}
         /\ hooks' = HooksAfterSetup(id)
         /\ commands' = CommandsAfterSetup(id)
         /\ platforms' = PlatformsAfterSetup(id)
         /\ methods' = MethodsAfterSetup(id)
         /\ events' = events \o
              <<Event("registered", id, origin, Undefined, NoOpts),
                CtxEvent("setup", id, origin)>>
         /\ queue' = Tail(queue) \o
              (IF m.hasPlugins THEN From(Keys(m.plugins), "plugin") ELSE <<>>)
  /\ UNCHANGED <<extraPlugins, initialConfig, paths, fixedVars, pc, entry, stack,
                 ap, outcome, runs>>

\* initPlugin of the next plugin: its context, registerPlugin, its setup
\* function, whose return value is dropped
InitPlugin ==
  /\ pc = "resolvePlugins" /\ queue # <<>>
  /\ LET id == ResolveId(Head(queue).spec)
         origin == Head(queue).origin
     IN  /\ id \notin plugins
         /\ plugins' = plugins \cup {id}
         /\ hooks' = HooksAfterSetup(id)
         /\ commands' = CommandsAfterSetup(id)
         /\ platforms' = PlatformsAfterSetup(id)
         /\ methods' = MethodsAfterSetup(id)
         /\ events' = events \o
              <<Event("registered", id, origin, Undefined, NoOpts),
                CtxEvent("setup", id, origin)>>
  /\ queue' = Tail(queue)
  /\ UNCHANGED <<extraPlugins, initialConfig, paths, fixedVars, pc, entry, stack,
                 ap, outcome, runs>>

\* Faulty variant: a plugin whose id is registered already is skipped
InitPluginConflictSkipped ==
  /\ pc = "resolvePlugins" /\ queue # <<>>
  /\ LET id == ResolveId(Head(queue).spec)
     IN  /\ id \in plugins
         /\ events' = Append(events,
                         CtxEvent("conflict", id, Head(queue).origin))
  /\ methods' = MethodsAfterCtx
  /\ queue' = Tail(queue)
  /\ UNCHANGED <<plugins, extraPlugins, hooks, commands, platforms, initialConfig,
                 paths, fixedVars, pc, entry, stack, ap, outcome, runs>>

\* initPlugin of a plugin whose id is registered already: registerPlugin
\* throws before the setup function is called, and init() rejects
InitPluginConflict ==
  /\ pc = "resolvePlugins" /\ queue # <<>>
  /\ LET id == ResolveId(Head(queue).spec)
     IN  /\ id \in plugins
         /\ events' = Append(events,
                         CtxEvent("conflict", id, Head(queue).origin))
  /\ methods' = MethodsAfterCtx
  /\ pc' = "idle" /\ queue' = <<>> /\ outcome' = Rejected("conflict")
  /\ UNCHANGED <<plugins, extraPlugins, hooks, commands, platforms, initialConfig,
                 paths, fixedVars, entry, stack, ap, runs>>

\* Faulty variant: extraPlugins is left as the presets filled it
OnReadyKeepsExtra ==
  /\ pc = "resolvePlugins" /\ queue = <<>>
  /\ pc' = "onReady"
  /\ ap' = ApplyCall("onReady", Undefined, NoOpts)
  /\ events' = Append(events, Phase("onReady"))
  /\ UNCHANGED <<kernelVars, fixedVars, entry, stack, queue, outcome, runs>>

\* the loop of resolvePlugins is over: extraPlugins is emptied, and init()
\* goes on to its await of applyPlugins('onReady')
OnReady ==
  /\ pc = "resolvePlugins" /\ queue = <<>>
  /\ extraPlugins' = <<>>
  /\ pc' = "onReady"
  /\ ap' = ApplyCall("onReady", Undefined, NoOpts)
  /\ events' = Append(events, Phase("onReady"))
  /\ UNCHANGED <<plugins, hooks, methods, commands, platforms, initialConfig, paths,
                 fixedVars, entry, stack, queue, outcome, runs>>

\* init() called on its own resolves
InitReturns ==
  /\ pc = "onReady" /\ ap.status = "resolved" /\ entry.kind = "init"
  /\ pc' = "idle" /\ ap' = NoCall
  /\ outcome' = [status |-> "resolved", error |-> "", value |-> Undefined]
  /\ afterFirst' = Snapshot
  /\ UNCHANGED <<kernelVars, inputVars, entry, stack, queue, runs, events>>

\* Faulty variant: run goes from init() straight to the command lookup
OnStartSkipped ==
  /\ pc = "onReady" /\ ap.status = "resolved" /\ entry.kind = "run"
  /\ pc' = "onStart"
  /\ ap' = [NoCall EXCEPT !.status = "resolved"]
  /\ UNCHANGED <<kernelVars, fixedVars, entry, stack, queue, outcome, runs, events>>

\* run: init() has resolved; up to the await of applyPlugins('onStart')
OnStart ==
  /\ pc = "onReady" /\ ap.status = "resolved" /\ entry.kind = "run"
  /\ pc' = "onStart"
  /\ ap' = ApplyCall("onStart", Undefined, NoOpts)
  /\ events' = Append(events, Phase("onStart"))
  /\ afterFirst' = Snapshot
  /\ UNCHANGED <<kernelVars, inputVars, entry, stack, queue, outcome, runs>>

\* run: this.commands.has(name) is false
UnknownCommand ==
  /\ pc = "onStart" /\ ap.status = "resolved"
  /\ entry.name \notin commands
  /\ pc' = "idle" /\ ap' = NoCall /\ outcome' = Rejected("command")
  /\ events' = Append(events, Phase("lookup"))
  /\ UNCHANGED <<kernelVars, fixedVars, entry, stack, queue, runs>>

\* Faulty variant: an undefined opts is read as having no platform
OptsUndefinedTolerated ==
  /\ pc = "onStart" /\ ap.status = "resolved"
  /\ entry.name \in commands /\ ~entry.opts.defined
  /\ pc' = "command"
  /\ ap' = ApplyCall(entry.name, Undefined, entry.opts)
  /\ events' = events \o <<Phase("lookup"), Phase("command")>>
  /\ UNCHANGED <<kernelVars, fixedVars, entry, stack, queue, outcome, runs>>

\* run: opts is undefined where opts.platform is read
OptsUndefined ==
  /\ pc = "onStart" /\ ap.status = "resolved"
  /\ entry.name \in commands /\ ~entry.opts.defined
  /\ pc' = "idle" /\ ap' = NoCall /\ outcome' = Rejected("opts")
  /\ events' = Append(events, Phase("lookup"))
  /\ UNCHANGED <<kernelVars, fixedVars, entry, stack, queue, runs>>

\* run: runWithPlatform throws, the platform not being registered
UnknownPlatform ==
  /\ pc = "onStart" /\ ap.status = "resolved"
  /\ entry.name \in commands /\ entry.opts.defined
  /\ entry.opts.platform # "" /\ entry.opts.platform \notin platforms
  /\ pc' = "idle" /\ ap' = NoCall /\ outcome' = Rejected("platform")
  /\ events' = Append(events, Phase("lookup"))
  /\ UNCHANGED <<kernelVars, fixedVars, entry, stack, queue, runs>>

\* Faulty variant: the platform asked for is not looked up
DispatchableAnyPlatform == entry.name \in commands /\ entry.opts.defined

\* Whether run goes on to the command's chain: the command is registered,
\* and the platform asked for, if any, is too.
Dispatchable ==
  /\ entry.name \in commands /\ entry.opts.defined
  /\ entry.opts.platform # "" => entry.opts.platform \in platforms

\* run: the command is looked up, opts.config is set to the platform's named
\* configuration; up to the await of applyPlugins({name, opts})
Dispatch ==
  /\ pc = "onStart" /\ ap.status = "resolved"
  /\ Dispatchable
  /\ LET opts == [entry.opts EXCEPT !.config = entry.opts.platform]
     IN  /\ entry' = [entry EXCEPT !.opts = opts]
         /\ ap' = ApplyCall(entry.name, Undefined, opts)
  /\ pc' = "command"
  /\ events' = events \o <<Phase("lookup"), Phase("command")>>
  /\ UNCHANGED <<kernelVars, fixedVars, stack, queue, outcome, runs>>

\* run resolves
RunReturns ==
  /\ pc = "command" /\ ap.status = "resolved"
  /\ pc' = "idle" /\ ap' = NoCall
  /\ outcome' = [status |-> "resolved", error |-> "", value |-> Undefined]
  /\ UNCHANGED <<kernelVars, fixedVars, entry, stack, queue, runs, events>>

Next ==
  \/ Run \/ Rethrow \/ Runner
  \/ InitPaths \/ InitPathsThrows \/ InitPresetsAndPlugins
  \/ InitPreset \/ InitPresetConflict \/ InitPresetReturn
  \/ ResolvePlugins \/ InitPlugin \/ InitPluginConflict
  \/ OnReady \/ InitReturns \/ OnStart
  \/ UnknownCommand \/ OptsUndefined \/ UnknownPlatform \/ Dispatch \/ RunReturns

Spec == Init /\ [][Next]_vars

\* ======================================================= claims, runner
Chain == hooks["h"]
Invoked == Select(events, "invoke")
RegIndex(fn) == CHOOSE k \in 1..Len(Chain) : Chain[k].fn = fn
\* the stage a registration asks for, a missing one counting as 0
AskedStage(h) == IF h.hasStage THEN h.stage ELSE 0
\* h comes ahead of g by stage, then by registration
Ahead(h, g) ==
  \/ AskedStage(Chain[h]) < AskedStage(Chain[g])
  \/ AskedStage(Chain[h]) = AskedStage(Chain[g]) /\ h < g
NoBefore == \A k \in 1..Len(Chain) : Chain[k].before = {}

\* C5: on a chain without `before` constraints the handlers run in ascending
\* stage order (a missing stage is 0), in registration order within a stage,
\* and a call that resolves has run each of them once.
C5_StageThenRegistrationOrder ==
  (entry.kind = "apply" /\ NoBefore) =>
    /\ \A a, b \in 1..Len(Invoked) :
         a < b => Ahead(RegIndex(Invoked[a].id), RegIndex(Invoked[b].id))
    /\ outcome.status = "resolved" => Len(Invoked) = Len(Chain)

\* h1 (stage 0), h2 (stage 1), h3 (stage 0) have run as h1, h3, h2
C5_Witness ==
  /\ outcome.status = "resolved" /\ NoBefore /\ Len(Chain) = 3
  /\ AskedStage(Chain[1]) = 0 /\ AskedStage(Chain[2]) = 1 /\ AskedStage(Chain[3]) = 0
  /\ ~Chain[1].hasStage
  /\ [k \in 1..3 |-> Invoked[k].id] = <<"h1", "h3", "h2">>

\* C6: a call on a chain without handlers resolves, in its one step, to the
\* initialVal it was given, and that step changes nothing of the kernel.
C6_EmptyChainIdentity ==
  [][(ap.status = "running" /\ hooks[ap.name] = <<>> /\ ap' # ap) =>
       /\ ap'.status = "resolved" /\ ap'.arg = entry.initialVal
       /\ UNCHANGED kernelVars]_vars

C6_Witness ==
  /\ entry.kind = "apply" /\ Chain = <<>> /\ entry.initialVal = SeedVal
  /\ outcome.status = "resolved" /\ outcome.value = SeedVal

\* C7 as stated: once a handler has failed, no handler registered after it
\* has run in the call.
C7_NoLaterRegisteredRuns ==
  \A k \in 1..Len(events) : events[k].kind = "reject" =>
    \A j \in 1..Len(Invoked) : RegIndex(Invoked[j].id) <= RegIndex(events[k].id)

\* C7 (amended): a handler's failure is the last thing the call does: no
\* handler starts after it, so none that is ordered behind the failed one
\* (by stage, then registration) runs, and the call rejects without a value.
C7_FailureEndsTheChain ==
  \A k \in 1..Len(events) : events[k].kind = "reject" =>
    /\ k = Len(events)
    /\ ap.status \in {"rejected", "none"}
    /\ pc = "idle" => outcome.status = "rejected" /\ outcome.value = Undefined
    /\ NoBefore => \A g \in 1..Len(Chain) :
         Ahead(RegIndex(events[k].id), g) =>
           \A j \in 1..Len(Invoked) : Invoked[j].id # Chain[g].fn

\* h1 failed, h2 was registered after it, and the call has ended
C7_Witness ==
  /\ pc = "idle" /\ outcome.status = "rejected" /\ Len(Chain) >= 2
  /\ events # <<>>
  /\ events[Len(events)].kind = "reject" /\ events[Len(events)].id = "h1"

\* what the handlers before the k-th one returned, in the order they ran
Earlier(k) == [j \in 1..(k - 1) |-> Invoked[j].id]
AppendedTo(v, q) == [v EXCEPT !.items = @ \o q]

\* C10 as stated: the accumulator starts as initialVal, or as an empty
\* collection when none is supplied, every handler is called with it and the
\* options, and what each returns is appended to it.
C10_AccumulatorSeededWithInitialVal ==
  entry.kind = "apply" =>
    \A k \in 1..Len(Invoked) :
      /\ Invoked[k].opts = entry.opts
      /\ Invoked[k].arg =
           AppendedTo(IF entry.initialVal = Undefined THEN ArrayVal(<<>>)
                      ELSE entry.initialVal, Earlier(k))

\* C10 (amended): the accumulator starts empty whatever initialVal is; the
\* first handler is called with (initialVal, opts), undefined when none is
\* supplied, and every later one with (accumulator, opts), the accumulator
\* being the array of the return values of the handlers run before it.
C10_FirstGetsSeedRestGetResults ==
  entry.kind = "apply" =>
    \A k \in 1..Len(Invoked) :
      /\ Invoked[k].opts = entry.opts
      /\ Invoked[k].arg = IF k = 1 THEN entry.initialVal ELSE ArrayVal(Earlier(k))

C10_Witness ==
  /\ entry.kind = "apply" /\ entry.initialVal = SeedVal /\ Len(Invoked) = 3
  /\ Invoked[1].arg = SeedVal /\ Invoked[3].arg = ArrayVal(Earlier(3))

\* ======================================================= claims, kernel
Setups == Select(events, "setup")
PresetSetups == SelectSeq(Setups, LAMBDA e : e.name = "preset")
IdsOf(q) == [k \in 1..Len(q) |-> q[k].id]
Has(kind) == \E k \in 1..Len(events) : events[k].kind = kind

\* C1: when two declared items resolve to one id, resolution fails before
\* the setup function of the second of them is executed: within one
\* resolution no module's setup function runs a second time.
C1_SecondSetupNeverRuns ==
  \A i, j \in 1..Len(Setups) : i # j => Setups[i].id # Setups[j].id

\* C2: a conflict found by registerPlugin is the last thing the resolution
\* does: nothing is initialized after it, init() has rejected, and the
\* onReady chain has neither been called nor run.
C2_ConflictAbortsInit ==
  \A k \in 1..Len(events) : events[k].kind = "conflict" =>
    /\ k = Len(events)
    /\ pc = "idle" /\ outcome = Rejected("conflict")
    /\ ap.status = "none"
    /\ \A j \in 1..Len(events) : events[j].name # "onReady"

\* a conflict between two plugins, with a plugin declared by a preset set up
\* before it and the configuration's plugins left uninitialized
C2_Witness ==
  /\ Has("conflict") /\ events[Len(events)].name = "plugin"
  /\ \E k \in 1..Len(Setups) : Setups[k].name = "extra"
  /\ configFile.plugins # <<>> /\ "C" \notin plugins
  /\ outcome.status = "rejected"

\* C3: the setup function of a plugin declared by a preset runs after the
\* setup function and registration of every preset, no preset loop being in
\* progress any more, and before the setup function of every plugin declared
\* by the caller or the configuration.
C3_PresetPluginsBetweenPresetsAndPlugins ==
  \A r \in 1..Len(events) :
    (events[r].kind = "setup" /\ events[r].name = "extra") =>
      /\ events[r].at = "resolvePlugins"
      /\ \A k \in 1..Len(events) :
           /\ events[k].name = "preset" => k < r
           /\ (events[k].kind = "setup" /\ events[k].name = "plugin") => r < k

\* P, its nested presets and its sibling P2 are set up, then the plugins the
\* presets declared (T, R, then P2's A), then a plugin of the caller's
C3_Witness ==
  /\ IdsOf(PresetSetups) = <<"P", "Q", "S", "P2">>
  /\ \E r, k \in 1..Len(Setups) :
       /\ Setups[r].name = "extra" /\ Setups[r].id = "R"
       /\ Setups[k].name = "plugin" /\ Setups[k].id = "B"

RECURSIVE Preorder(_, _)
\* The presets in depth-first order: each one followed at once by the presets
\* it declares, and theirs; depth bounds the nesting followed.
Preorder(q, depth) ==
  IF q = <<>> \/ depth = 0 THEN <<>>
  ELSE LET m == ModuleSetup(ResolveId(Head(q)))
       IN  <<ResolveId(Head(q))>>
             \o Preorder(IF m.hasPresets THEN m.presets ELSE <<>>, depth - 1)
             \o Preorder(Tail(q), depth)
IsPrefix(a, b) == Len(a) <= Len(b) /\ a = SubSeq(b, 1, Len(a))
DeclaredPresets == optsPresets \o SelectSeq(configFile.presets,
                                           LAMBDA x : x \notin Range(optsPresets))

\* C4: the presets are set up in depth-first order, the top-level ones in
\* the order declared: the presets set up so far are a prefix of that order,
\* all of it once a plugin is initialized, and each is registered before the
\* next is set up.
C4_DepthFirstPresets ==
  LET order == Preorder(DeclaredPresets, Cardinality(Ids) + 1)
  IN  /\ IsPrefix(IdsOf(PresetSetups), order)
      /\ (\E k \in 1..Len(Setups) : Setups[k].name # "preset") =>
           IdsOf(PresetSetups) = order
      /\ \A k \in 1..Len(events) :
           (events[k].kind = "setup" /\ events[k].name = "preset" /\ k < Len(events))
             => /\ events[k + 1].kind \in {"registered", "conflict"}
                /\ events[k + 1].id = events[k].id

\* P's nested Q and Q's nested S were set up before P's sibling P2, and a
\* plugin has been set up after them
C4_Witness ==
  /\ optsPresets = <<"P", "P2">>
  /\ IdsOf(PresetSetups) = <<"P", "Q", "S", "P2">>
  /\ Len(Setups) > 4

AtCommand(e) == e.kind = "invoke" /\ e.at = "command"

\* C8: a handler of the command's chain is run by run(name, opts) only when
\* name is a registered command and opts.platform is unset or a registered
\* platform; a run that asks for an unregistered platform rejects, whatever
\* the command, without having run one.
C8_CommandChainGuarded ==
  /\ (pc = "command" \/ \E k \in 1..Len(events) : AtCommand(events[k])) =>
       /\ entry.kind = "run" /\ entry.name \in commands
       /\ entry.opts.platform = "" \/ entry.opts.platform \in platforms
  /\ (entry.kind = "run" /\ entry.opts.platform # ""
        /\ entry.opts.platform \notin platforms) =>
       /\ \A k \in 1..Len(events) : ~AtCommand(events[k])
       /\ (pc = "idle" /\ outcome.status # "none") => outcome.status = "rejected"

\* run('build', {platform: 'weapp'}) and run('nope', {platform: 'weapp'}),
\* weapp unregistered, have rejected; build is registered in the first
C8_Witness ==
  /\ entry.kind = "run" /\ entry.name = "build" /\ "build" \in commands
  /\ entry.opts.platform = "weapp" /\ outcome = Rejected("platform")
  /\ Len(hooks["build"]) > 1

PhaseOrder == <<"modifyConfig", "modifyPaths", "resolve", "onReady", "onStart",
                "lookup", "command">>
Phases == Select(events, "phase")
\* the phase the k-th event falls in
PhaseAt(k) == Len(Select(SubSeq(events, 1, k), "phase"))

\* C9: a run that resolves has gone through the phases modifyConfig,
\* modifyPaths, resolution, onReady, onStart, lookup, command, once each and
\* in this order; what ran in a phase is that phase's chain or, in the
\* resolution, setup functions and registrations; the command's handlers
\* were called with opts.
C9_PhasesInOrder ==
  (entry.kind = "run" /\ pc = "idle" /\ outcome.status = "resolved") =>
    /\ [k \in 1..Len(Phases) |-> Phases[k].name] = PhaseOrder
    /\ \A k \in 1..Len(events) :
         LET e == events[k]
             phase == PhaseOrder[PhaseAt(k)]
         IN  /\ e.kind \in {"invoke", "resolve"} =>
                  e.name = (IF phase = "command" THEN entry.name ELSE phase)
             /\ e.kind \in {"setup", "registered"} => phase = "resolve"
             /\ e.kind \notin {"conflict", "reject"}
             /\ AtCommand(e) => e.opts = entry.opts /\ e.opts.config = e.opts.platform

\* run('build', {platform: 'h5'}) has resolved, every lifecycle chain and
\* the command's chain having had handlers
C9_Witness ==
  /\ entry.kind = "run" /\ pc = "idle" /\ outcome.status = "resolved"
  /\ entry.opts.platform = "h5"
  /\ \A n \in {"modifyPaths", "onReady", "onStart", "build"} :
       \E k \in 1..Len(events) : events[k].kind = "invoke" /\ events[k].name = n

\* ============================================== claims, runner (continued)
\* C11: a call on a chain of n >= 1 handlers that resolves, resolves to the
\* array of what the n handlers returned, one entry each, in the order they
\* ran.
C11_ResolvesToAllResults ==
  (entry.kind = "apply" /\ outcome.status = "resolved" /\ Chain # <<>>) =>
    /\ outcome.value = ArrayVal(IdsOf(Invoked))
    /\ Len(outcome.value.items) = Len(Chain)
    /\ \A k \in 1..Len(Chain) :
         \E j \in 1..Len(Chain) : outcome.value.items[j] = Chain[k].ret

\* three handlers ran, out of registration order, and the call resolved
C11_Witness ==
  /\ entry.kind = "apply" /\ outcome.status = "resolved" /\ Len(Chain) = 3
  /\ outcome.value.items = <<"h3", "h1", "h2">>

\* the handlers called and not yet settled
InFlight ==
  Len(Invoked) - Len(Select(events, "resolve")) - Len(Select(events, "reject"))

\* C15: at most one handler of the chain is in progress, and a handler is
\* called only when the one called before it has resolved or rejected: what
\* follows a call in the history is that call's outcome.
C15_OneHandlerAtATime ==
  /\ InFlight \in {0, 1} /\ (InFlight = 1) = ap.busy
  /\ \A k \in 1..Len(events) :
       (events[k].kind = "invoke" /\ k < Len(events)) =>
         /\ events[k + 1].kind \in {"resolve", "reject"}
         /\ events[k + 1].id = events[k].id

\* the second of three handlers is pending and the third has not been called
C15_Witness ==
  /\ ap.busy /\ ap.i = 2 /\ Len(ap.taps) = 3
  /\ Len(Invoked) = 2 /\ Len(Select(events, "resolve")) = 1

\* the place at which a handler of the chain ran in a call that resolved
Pos(fn) == CHOOSE j \in 1..Len(Invoked) : Invoked[j].id = fn
RanAll ==
  /\ Len(Invoked) = Len(Chain)
  /\ \A k \in 1..Len(Chain) : \E j \in 1..Len(Invoked) : Invoked[j].id = Chain[k].fn
Distance(x, y) == IF x < y THEN y - x ELSE x - y

\* C16 as stated: an entry whose `before` names another plugin runs ahead of
\* every entry of that plugin whose stage is the same or adjacent, whichever
\* was registered first; every handler runs once.
C16_BeforeAheadOfNamedPlugin ==
  (entry.kind = "apply" /\ outcome.status = "resolved") =>
    /\ RanAll
    /\ \A e, a \in 1..Len(Chain) :
         ( /\ Chain[a].plugin \in Chain[e].before
           /\ Chain[a].plugin # Chain[e].plugin
           /\ Distance(AskedStage(Chain[e]), AskedStage(Chain[a])) <= 1 )
         => Pos(Chain[e].fn) < Pos(Chain[a].fn)

\* C16 (amended): an entry whose `before` names a plugin runs ahead of the
\* entry of that plugin that ran last among those registered before it,
\* whatever the stages; every handler runs once.
C16_BeforeAheadOfLastEarlierEntry ==
  (entry.kind = "apply" /\ outcome.status = "resolved") =>
    /\ RanAll
    /\ \A e \in 1..Len(Chain) : \A n \in Chain[e].before :
         LET earlier == {a \in 1..(e - 1) : Chain[a].plugin = n}
         IN  earlier # {} =>
               \E a \in earlier : Pos(Chain[e].fn) < Pos(Chain[a].fn)

\* h3 of B, before A and registered last, ran ahead of A's h2 of a lower
\* stage and behind A's h1
C16_Witness ==
  /\ entry.kind = "apply" /\ outcome.status = "resolved" /\ Len(Chain) = 3
  /\ Chain[1].plugin = "A" /\ Chain[2].plugin = "A" /\ Chain[3].plugin = "B"
  /\ Chain[3].before = {"A"} /\ AskedStage(Chain[3]) > AskedStage(Chain[2])
  /\ IdsOf(Invoked) = <<"h1", "h3", "h2">>


\* ============================================== claims, kernel (continued)
\* init() has resolved in the call in progress, or in the last one that ended
InitResolved ==
  \/ entry.kind = "init" /\ pc = "idle" /\ outcome.status = "resolved"
  \/ entry.kind = "run" /\ \E k \in 1..Len(events) : events[k] = Phase("onStart")

\* C12: a later init() or run() on a kernel whose first init() resolved does
\* not reset the registered plugins and hooks, and once its init() has
\* resolved the plugin-id map and every hook chain are what they were after
\* the first init().
C12_LaterInitIdempotent ==
  (afterFirst.taken /\ runs >= 2) =>
    /\ afterFirst.plugins \subseteq plugins
    /\ \A n \in HookNames : IsPrefix(afterFirst.hooks[n], hooks[n])
    /\ InitResolved => plugins = afterFirst.plugins /\ hooks = afterFirst.hooks

ExtraSetups == SelectSeq(Setups, LAMBDA e : e.name = "extra")
SetupsBefore(k) == Select(SubSeq(events, 1, k - 1), "setup")
RegisteredBy(q) == UNION {Range(ModuleSetup(q[k].id).methods) : k \in 1..Len(q)}

\* C13: a method a preset or plugin registers is on the context of every
\* preset and plugin whose context is built later, the kernel's method map
\* never loses a method, and a context has none of the methods registered
\* after it was built: in the first resolution a context has the two
\* internal methods and what the setup functions before it registered,
\* nothing else.
C13_MethodsAppendOnly ==
  /\ [](\A k \in 1..Len(events) :
          events[k].kind \in {"setup", "conflict"} =>
            /\ RegisteredBy(SetupsBefore(k)) \subseteq events[k].ctx
            /\ events[k].ctx \subseteq methods
            /\ runs = 1 => events[k].ctx =
                 {"onReady", "onStart"} \cup RegisteredBy(SetupsBefore(k)))
  /\ [][methods \subseteq methods']_vars

\* P2's context was built before P registered onBuild and lacks it; those of
\* Q, S, T, R and A were built after and have it
C13_Witness ==
  /\ runs = 1 /\ pc = "onReady" /\ IdsOf(Setups) = <<"P2", "P", "Q", "S", "A", "T", "R">>
  /\ "onBuild" \notin Setups[1].ctx /\ "onBuild" \notin Setups[2].ctx
  /\ \A k \in 3..7 : "onBuild" \in Setups[k].ctx

TopIds(q) == {ResolveId(q[k]) : k \in 1..Len(q)}
DeclaredBy(q, kind) ==
  UNION {TopIds(IF kind = "preset" THEN ModuleSetup(q[k].id).presets
                ELSE ModuleSetup(q[k].id).plugins) :
           k \in {j \in 1..Len(q) : q[j].name = "preset"}}

\* C17: what a plugin's setup function returns is ignored. Every module that
\* is initialized was declared by the caller, by the configuration or by a
\* preset initialized before it, never by a plugin alone; and the step that
\* initializes a plugin takes it off the loop and adds nothing to the loop,
\* to extraPlugins or to the presets to go through.
C17_PluginsAreLeaves ==
  /\ [](\A k \in 1..Len(events) :
          LET e == events[k]
          IN  e.kind = "setup" =>
                e.id \in
                  CASE e.name = "preset" ->
                         TopIds(MergePlugins(optsPresets, ConfigPresets))
                           \cup DeclaredBy(SetupsBefore(k), "preset")
                    [] e.name = "extra" -> DeclaredBy(SetupsBefore(k), "extra")
                    [] OTHER -> TopIds(MergePlugins(optsPlugins, ConfigPlugins)))
  /\ [][(pc = "resolvePlugins" /\ pc' = "resolvePlugins") =>
          /\ queue' = Tail(queue)
          /\ extraPlugins' = extraPlugins /\ stack' = stack]_vars

\* the plugins P (returning presets and plugins) and B (returning plugins)
\* were initialized, and nothing else was
C17_Witness ==
  /\ pc = "onReady" /\ IdsOf(Setups) = <<"P", "B">>
  /\ plugins = {"P", "B"} /\ extraPlugins = <<>> /\ queue = <<>>

Named(kind, names) ==
  SelectSeq(events, LAMBDA e : e.kind = kind /\ e.name \in names)

\* C18: in the first init() of a kernel the modifyConfig and modifyPaths
\* chains are gone through before any setup function runs: no handler of
\* either chain is called, and the configuration and the paths stored are
\* the seed values.
C18_FirstInitSeeds ==
  runs = 1 =>
    /\ Named("invoke", {"modifyConfig", "modifyPaths"}) = <<>>
    /\ \A k \in 1..Len(events) :
         events[k].kind = "setup" =>
           /\ PhaseAt(k) = 3
           /\ [j \in 1..3 |-> Phases[j].name] = SubSeq(PhaseOrder, 1, 3)
    /\ Named("phase", {"modifyPaths"}) # <<>> => initialConfig = ConfigVal
    /\ Named("phase", {"resolve"}) # <<>> => paths = PathsVal

\* the first init() has resolved with handlers registered on both chains
C18_Witness ==
  /\ runs = 1 /\ entry.kind = "init" /\ pc = "idle" /\ outcome.status = "resolved"
  /\ hooks["modifyConfig"] # <<>> /\ hooks["modifyPaths"] # <<>>
  /\ initialConfig = ConfigVal /\ paths = PathsVal

\* C19: run called without opts never reaches the command's chain and never
\* resolves; when it gets as far as looking up a registered command it
\* rejects with the error of reading opts.platform, every handler of the
\* onReady and onStart chains having run and resolved.
C19_NoOptsFailsAtLookup ==
  (entry.kind = "run" /\ ~entry.opts.defined) =>
    /\ pc # "command"
    /\ \A k \in 1..Len(events) : ~AtCommand(events[k]) /\ events[k] # Phase("command")
    /\ (pc = "idle" /\ outcome.status # "none") => outcome.status = "rejected"
    /\ (Named("phase", {"lookup"}) # <<>> /\ entry.name \in commands) =>
         /\ outcome = Rejected("opts")
         /\ [k \in 1..Len(Phases) |-> Phases[k].name] = SubSeq(PhaseOrder, 1, 6)
         /\ \A n \in {"onReady", "onStart"} :
              /\ Len(Named("invoke", {n})) = Len(hooks[n])
              /\ Len(Named("resolve", {n})) = Len(hooks[n])

\* run('build') has failed on opts.platform after handlers of both chains
C19_Witness ==
  /\ entry.kind = "run" /\ ~entry.opts.defined /\ entry.name = "build"
  /\ pc = "idle" /\ outcome = Rejected("opts")
  /\ Named("resolve", {"onReady"}) # <<>> /\ Named("resolve", {"onStart"}) # <<>>
====
